---- MODULE Spec2Model ----
(***************************************************************************)
(* Verification model of the two-persona dialogue pipeline:                *)
(*   dialog_engine.py  (generate_reply, run_dialog, text constraints)      *)
(*   tts_engine.py     (synthesize_speech, artifact file names)            *)
(*   video_engine.py   (main: timeline assembly)                           *)
(* A text is a sequence of Unicode code points, so that startswith, strip, *)
(* lower, the regular expressions and lexicographic file-name order are    *)
(* computed as Python computes them.                                       *)
(***************************************************************************)
EXTENDS Integers, Sequences, FiniteSets, TLC

VARIABLES
    \* --- pure text functions (specification SpecText)
    tText,        \* the input text
    tOut,         \* the result of the last function applied
    tPrev,        \* the result before that
    tOp,          \* which function was applied last
    \* --- one generate_reply call (SpecReply) and run_dialog (Spec)
    pc,           \* position in run_dialog / generate_reply
    apiKey,       \* os.getenv("OPENAI_API_KEY") is set
    turns,        \* run_dialog's argument
    i,            \* run_dialog's loop variable
    agent,        \* the agent of the current generate_reply call
    history,      \* History: sequence of <<speaker, text>>
    histArg,      \* the history list object passed to the last generate_reply
    lastContext,  \* the history messages of the last generation request
    lastRaw,      \* resp.choices[0].message.content of the generation call
    lastPre,      \* reply_text just before _rewrite_without_latin
    lastResp,     \* content of the rewrite response (NoCall: no request)
    lastReply,    \* reply returned by generate_reply
    llmCalls,     \* number of client.chat.completions.create calls so far
    turnCalls,    \* the same, for the current generate_reply call only
    synthTried,   \* turn indexes for which synthesize_speech was called
    synthFailed,  \* turn indexes whose synthesize_speech raised
    audioDir,     \* set of file names (texts) present in AUDIO_DIR
    audioDirExists, \* AUDIO_DIR.exists()
    \* --- artifact names (SpecNames)
    nIdx,         \* turn_index of the last synthesize_speech
    nName,        \* its file name
    nPrevName,    \* the file name of turn nIdx - 1
    \* --- video_engine.main (SpecAsm)
    vpc,          \* position in video_engine.main
    avatars,      \* speaker keys whose avatar file exists
    maxAudio,     \* MAX_AUDIO_FILES
    audio_files,  \* the sorted, filtered list of artifacts
    idx,          \* enumerate index of the loop (files consumed so far)
    clips,        \* the list of clips built so far
    introduced,   \* the introduced dict
    ttsCalls,     \* number of _tts_to_file calls (narrations)
    fileDuration, \* AudioFileClip(file).duration of each file of AUDIO_DIR
    fileResult,   \* what the loop did with each file it consumed
    videoWritten  \* OUTPUT_PATH was written by this run

textVars == <<tText, tOut, tPrev, tOp>>
dialogVars == <<pc, apiKey, turns, i, agent, history, histArg, lastContext,
                lastRaw, lastPre,
                lastResp, lastReply, llmCalls, turnCalls, synthTried,
                synthFailed>>
nameVars == <<nIdx, nName, nPrevName>>
asmVars == <<vpc, avatars, maxAudio, audio_files, idx, clips, introduced,
             ttsCalls, fileDuration, fileResult, videoWritten>>
dirVars == <<audioDir, audioDirExists>>
vars == <<textVars, dialogVars, dirVars, nameVars, asmVars>>

-----------------------------------------------------------------------------
(* Characters and Python's str primitives                                  *)

\* str.isspace() / regex \s on the characters the model uses
IsSpace(c) == c \in {9, 10, 11, 12, 13, 32}

\* LATIN_RE = [A-Za-z]
IsLatin(c) == c \in (65..90) \cup (97..122)

IsDigit(c) == c \in 48..57

\* str.lower() on one character: ASCII, basic Cyrillic, and U+0400..U+040F
LowerChar(c) ==
    IF c \in 65..90 THEN c + 32
    ELSE IF c \in 1040..1071 THEN c + 32
    ELSE IF c \in 1024..1039 THEN c + 80
    ELSE c

lower(t) == [k \in 1..Len(t) |-> LowerChar(t[k])]

startswith(t, p) == Len(t) >= Len(p) /\ SubSeq(t, 1, Len(p)) = p

\* p in t
contains(t, p) ==
    \E k \in 0..(Len(t) - Len(p)) : SubSeq(t, k + 1, k + Len(p)) = p

\* number of non-overlapping occurrences of p in t at or after position k
RECURSIVE CountFrom(_, _, _)
CountFrom(t, p, k) ==
    IF k + Len(p) - 1 > Len(t) THEN 0
    ELSE IF SubSeq(t, k, k + Len(p) - 1) = p
         THEN 1 + CountFrom(t, p, k + Len(p))
         ELSE CountFrom(t, p, k + 1)

count(t, p) == CountFrom(t, p, 1)

\* index of the first non-space character, Len(t) + 1 when there is none
FirstNonSpace(t) ==
    IF \A k \in 1..Len(t) : IsSpace(t[k]) THEN Len(t) + 1
    ELSE CHOOSE k \in 1..Len(t) :
             ~IsSpace(t[k]) /\ \A j \in 1..(k - 1) : IsSpace(t[j])

\* index of the last non-space character, 0 when there is none
LastNonSpace(t) ==
    IF \A k \in 1..Len(t) : IsSpace(t[k]) THEN 0
    ELSE CHOOSE k \in 1..Len(t) :
             ~IsSpace(t[k]) /\ \A j \in (k + 1)..Len(t) : IsSpace(t[j])

lstrip(t) == SubSeq(t, FirstNonSpace(t), Len(t))

strip(t) == SubSeq(t, FirstNonSpace(t), LastNonSpace(t))

HasLatin(t) == \E k \in 1..Len(t) : IsLatin(t[k])

-----------------------------------------------------------------------------
(* Constants of dialog_engine.py                                           *)

SPACE == <<32>>

\* "Давай начнём с самого простого."
IRINA_FIRST_PHRASE ==
    <<1044, 1072, 1074, 1072, 1081, 32, 1085, 1072, 1095, 1085, 1105, 1084,
      32, 1089, 32, 1089, 1072, 1084, 1086, 1075, 1086, 32, 1087, 1088, 1086,
      1089, 1090, 1086, 1075, 1086, 46>>

\* "Добрый день. Да, спасибо."
IRINA_PREFACE ==
    <<1044, 1086, 1073, 1088, 1099, 1081, 32, 1076, 1077, 1085, 1100, 46, 32,
      1044, 1072, 44, 32, 1089, 1087, 1072, 1089, 1080, 1073, 1086, 46>>

\* "Д-р Ирина (учёный)"
IRINA_NAME ==
    <<1044, 45, 1088, 32, 1048, 1088, 1080, 1085, 1072, 32, 40, 1091, 1095,
      1105, 1085, 1099, 1081, 41>>

\* "Д-р Алексей (скептик)"
ALEXEY_NAME ==
    <<1044, 45, 1088, 32, 1040, 1083, 1077, 1082, 1089, 1077, 1081, 32, 40,
      1089, 1082, 1077, 1087, 1090, 1080, 1082, 41>>

\* f"{IRINA_PREFACE} {IRINA_FIRST_PHRASE}"
PrefacedPhrase == IRINA_PREFACE \o SPACE \o IRINA_FIRST_PHRASE

-----------------------------------------------------------------------------
(* SPEAKER_PREFIX_RE, matched at the start of the text with IGNORECASE:     *)
(* optional spaces; optionally "Д", an optional "-", "р" and spaces; the   *)
(* name "Ирина" or "Алексей"; spaces; "(" ; "учёный" or "скептик"; ")";    *)
(* spaces; ":"; spaces.                                                    *)
(* A position is the index of the next character to read; 0 is "no match". *)

\* a literal, case-insensitively
ReLit(t, p, lit) ==
    IF p = 0 \/ p + Len(lit) - 1 > Len(t) THEN 0
    ELSE IF lower(SubSeq(t, p, p + Len(lit) - 1)) = lower(lit)
         THEN p + Len(lit)
         ELSE 0

\* a greedy run of spaces
ReSpaces(t, p) ==
    IF p = 0 THEN 0
    ELSE p + (FirstNonSpace(SubSeq(t, p, Len(t))) - 1)

ReAlt(a, b) == IF a # 0 THEN a ELSE b

\* the name, the role in parentheses and the colon, with the spaces around
ReNameRoleColon(t, p) ==
    LET name == ReAlt(ReLit(t, p, <<1048, 1088, 1080, 1085, 1072>>),
                      ReLit(t, p, <<1040, 1083, 1077, 1082, 1089, 1077, 1081>>))
        open == ReLit(t, ReSpaces(t, name), <<40>>)
        role == ReAlt(ReLit(t, open, <<1091, 1095, 1105, 1085, 1099, 1081>>),
                      ReLit(t, open, <<1089, 1082, 1077, 1087, 1090, 1080, 1082>>))
        close == ReLit(t, role, <<41>>)
        colon == ReLit(t, ReSpaces(t, close), <<58>>)
    IN  ReSpaces(t, colon)

\* the end of the match of SPEAKER_PREFIX_RE at the start of t, 0 if none
SPEAKER_PREFIX_RE(t) ==
    LET p0 == ReSpaces(t, 1)
        d == ReLit(t, p0, <<1044>>)
        dr == ReAlt(ReLit(t, ReLit(t, d, <<45>>), <<1088>>),
                    ReLit(t, d, <<1088>>))
        title == ReSpaces(t, dr)
    IN  ReAlt(ReNameRoleColon(t, title), ReNameRoleColon(t, p0))

\* (mutant) the pattern without its anchor: the first label found anywhere in
\* t is removed
SubPrefixAnywhere(t) ==
    LET ks == { k \in 1..Len(t) : SPEAKER_PREFIX_RE(SubSeq(t, k, Len(t))) # 0 }
    IN  IF ks = {} THEN t
        ELSE LET k == CHOOSE x \in ks : \A y \in ks : x <= y
                 e == SPEAKER_PREFIX_RE(SubSeq(t, k, Len(t)))
             IN  SubSeq(t, 1, k - 1) \o SubSeq(t, k + e - 1, Len(t))

\* SPEAKER_PREFIX_RE.sub("", t): the pattern is anchored, one match at most
SubPrefix(t) ==
    LET e == SPEAKER_PREFIX_RE(t)
    IN  IF e = 0 THEN t ELSE SubSeq(t, e, Len(t))

strip_leading_speaker_prefix(reply) == strip(SubPrefix(lstrip(reply)))

-----------------------------------------------------------------------------
(* The opening phrase and the preface                                      *)

enforce_irina_first_phrase(reply) ==
    LET cleaned == lstrip(reply)
    IN  IF startswith(cleaned, IRINA_FIRST_PHRASE) THEN cleaned
        ELSE strip(IRINA_FIRST_PHRASE \o SPACE \o cleaned)

add_irina_preface_if_first_turn(reply) ==
    LET cleaned == lstrip(reply)
    IN  IF ~startswith(cleaned, IRINA_FIRST_PHRASE) THEN cleaned
        ELSE IF startswith(cleaned, PrefacedPhrase) THEN cleaned
        ELSE strip(IRINA_PREFACE \o SPACE \o cleaned)

\* generate_reply, lines 211-212: the two steps of the first expert turn
EnforceOpening(t) == add_irina_preface_if_first_turn(enforce_irina_first_phrase(t))

-----------------------------------------------------------------------------
(* Foreign-alphabet sanitization                                           *)

\* the marker for "no rewrite request was issued"
NoCall == <<0>>

\* (mutant) the rewrite is returned without the second LATIN_RE check
rewrite_without_latin_unchecked(text, resp) ==
    IF ~HasLatin(text) THEN text ELSE strip(resp)

\* _rewrite_without_latin; resp is the content of the rewrite response, read
\* only when the text has a Latin letter (the one request is then issued)
rewrite_without_latin(text, resp) ==
    IF ~HasLatin(text) THEN text
    ELSE LET rewritten == strip(resp)
         IN  IF ~HasLatin(rewritten) THEN rewritten ELSE text

\* (mutant) a second attempt after the first rewrite
RewriteRequestsRetry(text) == IF HasLatin(text) THEN 2 ELSE 0

\* the rewrite requests _rewrite_without_latin issues for a text
RewriteRequests(text) == IF HasLatin(text) THEN 1 ELSE 0

\* generate_reply, lines 204-212: reply_text as it stands before sanitization
PreSanitize(ag, hist, raw) ==
    LET is_first_turn == hist = <<>>
        stripped == strip_leading_speaker_prefix(strip(raw))
    IN  IF is_first_turn /\ ag = IRINA_NAME
        THEN EnforceOpening(stripped)
        ELSE stripped

\* _history_to_messages: one user message per turn, in order, its content
\* f"{speaker}: {text}".strip()
history_to_messages(hist) ==
    [k \in 1..Len(hist) |-> strip(hist[k][1] \o <<58, 32>> \o hist[k][2])]

\* (mutant) the new turn is put in front of the earlier ones
updated_history_prepended(hist, ag, reply_text) == <<<<ag, reply_text>>>> \o hist

\* updated_history = list(history); updated_history.append((agent.name, reply_text))
updated_history(hist, ag, reply_text) == Append(hist, <<ag, reply_text>>)

\* the list that was passed in, once generate_reply has returned: line 216
\* appends to a copy, so the caller's list keeps the items it had
passed_history(hist, ag, reply_text) == hist

-----------------------------------------------------------------------------
(* The texts the language model may return                                 *)

\* number of pieces a generated text is made of, at most
MaxPieces == 3
\* the same for a rewrite response
MaxRespPieces == 1

\* "да", "ok", "Д-р Ирина (учёный):"
Pieces ==
    << IRINA_FIRST_PHRASE,
       IRINA_PREFACE,
       SPACE,
       <<1076, 1072>>,
       <<111, 107>>,
       IRINA_NAME \o <<58>> >>

RECURSIVE Flatten(_)
Flatten(s) == IF s = <<>> THEN <<>> ELSE Pieces[Head(s)] \o Flatten(Tail(s))

Texts(n) == { Flatten(s) : s \in UNION { [1..k -> DOMAIN Pieces] : k \in 0..n } }

RawTexts == Texts(MaxPieces)
RespTexts == Texts(MaxRespPieces)

\* the replies drawn in a whole run: empty content, "да", "ok"
DialogTexts == { <<>>, <<1076, 1072>>, <<111, 107>> }

-----------------------------------------------------------------------------
(* generate_reply                                                          *)

\* (mutant) generate_reply goes on to its request whatever the credential
CredentialNotChecked(key) == TRUE

\* lines 148-152: os.getenv("OPENAI_API_KEY") is truthy, else RuntimeError
HasCredential(key) == key

\* One call generate_reply(agent=ag, history=history, ...): the credential
\* check, the generation request, the transforms, the rewrite request, the
\* append.  A request of the client may raise; nothing in generate_reply or
\* run_dialog catches it.
generate_reply(ag, rawPool, respPool, okpc) ==
    /\ agent' = ag
    /\ \/ /\ ~HasCredential(apiKey)
          /\ pc' = "error"
          /\ turnCalls' = 0
          /\ histArg' = history
          /\ UNCHANGED <<history, lastContext, lastRaw, lastPre, lastResp,
                         lastReply, llmCalls>>
       \/ /\ HasCredential(apiKey)
          /\ lastContext' = history_to_messages(history)
          /\ pc' = "error"
          /\ turnCalls' = 1
          /\ llmCalls' = llmCalls + 1
          /\ histArg' = history
          /\ UNCHANGED <<history, lastRaw, lastPre, lastResp, lastReply>>
       \/ /\ HasCredential(apiKey)
          /\ lastContext' = history_to_messages(history)
          /\ \E raw \in rawPool :
               /\ lastRaw' = raw
               /\ lastPre' = PreSanitize(ag, history, raw)
          /\ turnCalls' = 1 + RewriteRequests(lastPre')
          /\ llmCalls' = llmCalls + turnCalls'
          /\ \/ /\ ~HasLatin(lastPre')
                /\ lastResp' = NoCall
                /\ lastReply' = rewrite_without_latin(lastPre', NoCall)
                /\ history' = updated_history(history, ag, lastReply')
                /\ histArg' = passed_history(history, ag, lastReply')
                /\ pc' = okpc
             \/ /\ HasLatin(lastPre')
                /\ lastResp' = NoCall
                /\ pc' = "error"
                /\ histArg' = history
                /\ UNCHANGED <<history, lastReply>>
             \/ /\ HasLatin(lastPre')
                /\ \E resp \in respPool :
                     /\ lastResp' = resp
                     /\ lastReply' = rewrite_without_latin(lastPre', resp)
                /\ history' = updated_history(history, ag, lastReply')
                /\ histArg' = passed_history(history, ag, lastReply')
                /\ pc' = okpc

-----------------------------------------------------------------------------
(* Artifact file names (tts_engine.py)                                     *)

\* the width of the sequence number in f"{turn_index:03d}"
SeqWidth == 3

RECURSIVE Digits(_)
Digits(n) == IF n < 10 THEN <<48 + n>> ELSE Digits(n \div 10) \o <<48 + (n % 10)>>

RECURSIVE ZeroPad(_, _)
ZeroPad(d, w) == IF Len(d) >= w THEN d ELSE ZeroPad(<<48>> \o d, w)

\* format(n, "03d")
Format03d(n) == ZeroPad(Digits(n), SeqWidth)

\* " ", "(", ")", "[", "]", "{", "}"
SlugRemoved == {32, 40, 41, 91, 93, 123, 125}

\* _simplify_speaker_name; "speaker" when nothing is left
simplify_speaker_name(speaker) ==
    LET simplified == SelectSeq(lower(speaker), LAMBDA c : c \notin SlugRemoved)
    IN  IF simplified = <<>> THEN <<115, 112, 101, 97, 107, 101, 114>>
        ELSE simplified

\* ".mp3"
DotMp3 == <<46, 109, 112, 51>>

\* filename = f"{turn_index:03d}_{speaker_simplified}.mp3"
Filename(turn_index, speaker) ==
    Format03d(turn_index) \o <<95>> \o simplify_speaker_name(speaker) \o DotMp3

\* Python's str order: by code point, a proper prefix first
RECURSIVE StrLess(_, _)
StrLess(a, b) ==
    IF b = <<>> THEN FALSE
    ELSE IF a = <<>> THEN TRUE
    ELSE IF Head(a) # Head(b) THEN Head(a) < Head(b)
    ELSE StrLess(Tail(a), Tail(b))

-----------------------------------------------------------------------------
(* run_dialog                                                              *)

\* the largest turn count of a run
MaxTurns == 3

\* (mutant) the skeptic opens
agents_swapped(k) == IF k = 0 THEN ALEXEY_NAME ELSE IRINA_NAME

\* agents = [agent1, agent2], by name, 0-based as in Python
agents(k) == IF k = 0 THEN IRINA_NAME ELSE ALEXEY_NAME

IdleText == /\ tText = <<>> /\ tOut = <<>> /\ tPrev = <<>> /\ tOp = "idle"
IdleNames == /\ nIdx = 0 /\ nName = <<>> /\ nPrevName = <<>>
IdleDir == /\ audioDir = {} /\ audioDirExists = FALSE
IdleAsm ==
    /\ vpc = "idle" /\ avatars = {} /\ maxAudio = 0 /\ audio_files = <<>>
    /\ idx = 0 /\ clips = <<>> /\ ttsCalls = 0
    /\ introduced = <<>>
    /\ fileDuration = <<>> /\ fileResult = <<>> /\ videoWritten = FALSE
IdleDialog ==
    /\ pc = "idle" /\ apiKey = FALSE /\ turns = 0 /\ i = 0 /\ agent = <<>>
    /\ history = <<>> /\ histArg = <<>> /\ lastContext = <<>>
    /\ lastRaw = <<>> /\ lastPre = <<>>
    /\ lastResp = NoCall /\ lastReply = <<>> /\ llmCalls = 0 /\ turnCalls = 0
    /\ synthTried = {} /\ synthFailed = {}

\* run_dialog(topic, turns) entered: history = [], the loop not yet started
Init ==
    /\ pc = "loop"
    /\ apiKey \in BOOLEAN
    /\ turns \in 0..MaxTurns
    /\ i = 0
    /\ agent = <<>>
    /\ history = <<>>
    /\ histArg = <<>>
    /\ lastContext = <<>>
    /\ lastRaw = <<>> /\ lastPre = <<>> /\ lastResp = NoCall /\ lastReply = <<>>
    /\ llmCalls = 0 /\ turnCalls = 0
    /\ synthTried = {} /\ synthFailed = {}
    /\ audioDir = {} /\ audioDirExists = FALSE
    /\ IdleText /\ IdleNames /\ IdleAsm

\* line 258-259: agent = agents[i % 2]; reply, history = generate_reply(...)
Generate ==
    /\ pc = "loop"
    /\ i < turns
    /\ generate_reply(agents(i % 2), DialogTexts, DialogTexts, "synth")
    /\ UNCHANGED <<apiKey, turns, i, synthTried, synthFailed, dirVars>>
    /\ UNCHANGED <<textVars, nameVars, asmVars>>

\* lines 262-272 with synthesize_speech: the request succeeds and the whole
\* stream is saved to the file
SynthOk ==
    /\ pc = "synth"
    /\ apiKey
    /\ synthTried' = synthTried \cup {i + 1}
    /\ audioDir' = audioDir \cup {Filename(i + 1, agent)}
    /\ audioDirExists' = TRUE
    /\ UNCHANGED synthFailed
    /\ i' = i + 1
    /\ pc' = "loop"
    /\ UNCHANGED <<apiKey, turns, agent, history, histArg, lastContext, lastRaw, lastPre,
                   lastResp, lastReply, llmCalls, turnCalls>>
    /\ UNCHANGED <<textVars, nameVars, asmVars>>

\* the request raises before any byte is saved; run_dialog logs and goes on
SynthFailsAtRequest ==
    /\ pc = "synth"
    /\ synthTried' = synthTried \cup {i + 1}
    /\ synthFailed' = synthFailed \cup {i + 1}
    /\ UNCHANGED audioDir
    /\ audioDirExists' = TRUE
    /\ i' = i + 1
    /\ pc' = "loop"
    /\ UNCHANGED <<apiKey, turns, agent, history, histArg, lastContext, lastRaw, lastPre,
                   lastResp, lastReply, llmCalls, turnCalls>>
    /\ UNCHANGED <<textVars, nameVars, asmVars>>

\* response.stream_to_file(output_path) raises midway: the stream is saved
\* directly to the artifact's path, which then holds a truncated recording
SynthFailsWhileStreaming ==
    /\ pc = "synth"
    /\ apiKey
    /\ synthTried' = synthTried \cup {i + 1}
    /\ synthFailed' = synthFailed \cup {i + 1}
    /\ audioDir' = audioDir \cup {Filename(i + 1, agent)}
    /\ audioDirExists' = TRUE
    /\ i' = i + 1
    /\ pc' = "loop"
    /\ UNCHANGED <<apiKey, turns, agent, history, histArg, lastContext, lastRaw, lastPre,
                   lastResp, lastReply, llmCalls, turnCalls>>
    /\ UNCHANGED <<textVars, nameVars, asmVars>>

\* line 274: return history
Return ==
    /\ pc = "loop"
    /\ i >= turns
    /\ pc' = "done"
    /\ UNCHANGED <<apiKey, turns, i, agent, history, histArg, lastContext, lastRaw, lastPre,
                   lastResp, lastReply, llmCalls, turnCalls, synthTried,
                   synthFailed, dirVars>>
    /\ UNCHANGED <<textVars, nameVars, asmVars>>

Next == Generate \/ SynthOk \/ SynthFailsAtRequest \/ SynthFailsWhileStreaming \/ Return

Spec == Init /\ [][Next]_vars

-----------------------------------------------------------------------------
(* SpecReply: one generate_reply call on a given agent and history         *)

\* the histories a call is given: none, or the expert's first turn
ReplyHistories ==
    { <<>>, << <<IRINA_NAME, PrefacedPhrase \o SPACE \o <<1076, 1072>> >> >> }

InitReply ==
    /\ pc = "call"
    /\ apiKey \in BOOLEAN
    /\ turns = 0 /\ i = 0
    /\ agent \in {IRINA_NAME, ALEXEY_NAME}
    /\ history \in ReplyHistories
    /\ histArg = <<>>
    /\ lastContext = <<>>
    /\ lastRaw = <<>> /\ lastPre = <<>> /\ lastResp = NoCall /\ lastReply = <<>>
    /\ llmCalls = 0 /\ turnCalls = 0
    /\ synthTried = {} /\ synthFailed = {}
    /\ audioDir = {} /\ audioDirExists = FALSE
    /\ IdleText /\ IdleNames /\ IdleAsm

CallGenerateReply ==
    /\ pc = "call"
    /\ generate_reply(agent, RawTexts, RespTexts, "returned")
    /\ UNCHANGED <<apiKey, turns, i, synthTried, synthFailed, dirVars>>
    /\ UNCHANGED <<textVars, nameVars, asmVars>>

NextReply == CallGenerateReply

SpecReply == InitReply /\ [][NextReply]_vars

-----------------------------------------------------------------------------
(* SpecText: the text functions applied to a text                          *)

\* self-labels SPEAKER_PREFIX_RE recognizes:
\* "Д-р Ирина (учёный):", "др алексей(СКЕПТИК) :", "Ирина (скептик):"
SelfLabels ==
    { IRINA_NAME \o <<58>>,
      <<1076, 1088, 32, 1072, 1083, 1077, 1082, 1089, 1077, 1081, 40, 1057,
        1050, 1045, 1055, 1058, 1048, 1050, 41, 32, 58>>,
      <<1048, 1088, 1080, 1085, 1072, 32, 40, 1089, 1082, 1077, 1087, 1090,
        1080, 1082, 41, 58>> }

\* texts that look like a self-label and are none: no colon, no role, no name
\* "Д-р Ирина (учёный)", "Ирина:", "Д-р (учёный):"
NearLabels ==
    { IRINA_NAME,
      <<1048, 1088, 1080, 1085, 1072, 58>>,
      <<1044, 45, 1088, 32, 40, 1091, 1095, 1105, 1085, 1099, 1081, 41, 58>> }

\* what follows the first label of a line: nothing, spaces, "да", a label
LabelRests ==
    { a \o b : a \in { <<>>, SPACE, <<1076, 1072>> },
               b \in { <<>>, <<1076, 1072, 32>> } \cup SelfLabels }

\* lines that open with a label or a near label, after optional whitespace
LabelTexts ==
    { w \o f \o r : w \in { <<>>, SPACE },
                     f \in SelfLabels \cup NearLabels,
                     r \in LabelRests }

InitText ==
    /\ tText \in RawTexts \cup LabelTexts
    /\ tOut = tText /\ tPrev = tText /\ tOp = "input"
    /\ IdleDialog /\ IdleDir /\ IdleNames /\ IdleAsm

\* _enforce_irina_first_phrase followed by _add_irina_preface_if_first_turn
ApplyEnforce ==
    /\ tOp = "input"
    /\ tOp' = "enforced"
    /\ tPrev' = tOut
    /\ tOut' = EnforceOpening(tOut)
    /\ UNCHANGED <<tText, dialogVars, dirVars, nameVars, asmVars>>

\* the same two steps applied to their own result
ApplyEnforceAgain ==
    /\ tOp = "enforced"
    /\ tOp' = "enforced2"
    /\ tPrev' = tOut
    /\ tOut' = EnforceOpening(tOut)
    /\ UNCHANGED <<tText, dialogVars, dirVars, nameVars, asmVars>>

\* _strip_leading_speaker_prefix
ApplyStrip ==
    /\ tOp = "input"
    /\ tOp' = "stripped"
    /\ tPrev' = tOut
    /\ tOut' = strip_leading_speaker_prefix(tOut)
    /\ UNCHANGED <<tText, dialogVars, dirVars, nameVars, asmVars>>

NextText == ApplyEnforce \/ ApplyEnforceAgain \/ ApplyStrip

SpecText == InitText /\ [][NextText]_vars

-----------------------------------------------------------------------------
(* SpecNames: the file names run_dialog's loop gives to its turns          *)

\* the largest turn index named
MaxTurnIdx == 1000

InitNames ==
    /\ nIdx = 0 /\ nName = <<>> /\ nPrevName = <<>>
    /\ IdleText /\ IdleDialog /\ IdleDir /\ IdleAsm

\* run_dialog lines 257-269 and synthesize_speech lines 92-94, for i = nIdx
NameTurn ==
    /\ nIdx < MaxTurnIdx
    /\ nIdx' = nIdx + 1
    /\ nPrevName' = nName
    /\ nName' = Filename(nIdx + 1, agents(nIdx % 2))
    /\ UNCHANGED <<textVars, dialogVars, dirVars, asmVars>>

NextNames == NameTurn

SpecNames == InitNames /\ [][NextNames]_vars

-----------------------------------------------------------------------------
(* video_engine.py: the timeline assembly                                  *)

SpeakerKeys == {"irina", "alexey"}

\* (mutant) the speaker keys themselves, "irina" and "alexey", are looked for
detect_speaker_by_key(filename) ==
    LET low == lower(filename)
    IN  IF contains(low, <<105, 114, 105, 110, 97>>) THEN "irina"
        ELSE IF contains(low, <<97, 108, 101, 120, 101, 121>>) THEN "alexey"
        ELSE "unknown"

\* detect_speaker_from_filename: "ирина", then "алексей", in filename.lower()
detect_speaker_from_filename(filename) ==
    LET low == lower(filename)
    IN  IF contains(low, <<1080, 1088, 1080, 1085, 1072>>) THEN "irina"
        ELSE IF contains(low, <<1072, 1083, 1077, 1082, 1089, 1077, 1081>>)
             THEN "alexey"
        ELSE "unknown"

\* AUDIO_DIR.glob("*.mp3")
IsMp3(name) ==
    Len(name) >= Len(DotMp3)
    /\ SubSeq(name, Len(name) - Len(DotMp3) + 1, Len(name)) = DotMp3

\* p.name[:3].isdigit()
LeadingDigits(name) ==
    LET head == SubSeq(name, 1, IF Len(name) < 3 THEN Len(name) ELSE 3)
    IN  head # <<>> /\ \A k \in 1..Len(head) : IsDigit(head[k])

\* sorted(..., key=lambda p: p.name)
RECURSIVE SortNames(_)
SortNames(S) ==
    IF S = {} THEN <<>>
    ELSE LET m == CHOOSE x \in S : \A y \in S \ {x} : StrLess(x, y)
         IN  <<m>> \o SortNames(S \ {m})

\* main, lines 215-220: the artifacts the assembler considers
ListAudioFiles(dir, cap) ==
    LET sorted == SortNames({ n \in dir : IsMp3(n) /\ LeadingDigits(n) })
    IN  IF cap > 0
        THEN SubSeq(sorted, 1, IF cap < Len(sorted) THEN cap ELSE Len(sorted))
        ELSE sorted

\* (mutant) only the avatars of the speakers that have an artifact are checked
MissingAvatarOfListed(avs, files) ==
    \E k \in SpeakerKeys :
        /\ k \notin avs
        /\ \E p \in 1..Len(files) : detect_speaker_from_filename(files[p]) = k

\* main, lines 236-239: some avatar of avatar_map is missing
MissingAvatar(avs, files) == \E k \in SpeakerKeys : k \notin avs

\* the narration files of TMP_DIR: "000_topic_intro.mp3",
\* "010_intro_irina.mp3", "011_intro_alexey.mp3"
TopicIntroFile ==
    <<48, 48, 48, 95, 116, 111, 112, 105, 99, 95, 105, 110, 116, 114, 111>> \o DotMp3

SpeakerIntroFile(speaker_key) ==
    IF speaker_key = "irina"
    THEN <<48, 49, 48, 95, 105, 110, 116, 114, 111, 95, 105, 114, 105, 110, 97>> \o DotMp3
    ELSE <<48, 49, 49, 95, 105, 110, 116, 114, 111, 95, 97, 108, 101, 120, 101, 121>> \o DotMp3

\* the length of a narration is the length of what the speech service
\* returned for its fixed script: one value per script, in tenths of a second
NarrationDuration(file) == 10 * (Len(file) - Len(DotMp3))

\* make_topic_intro_clip: the cover background, as long as its narration
make_topic_intro_clip ==
    [kind |-> "topic", speaker |-> "none", image |-> "cover",
     audio |-> TopicIntroFile, duration |-> NarrationDuration(TopicIntroFile)]

\* make_speaker_intro_clip
make_speaker_intro_clip(speaker_key) ==
    [kind |-> "intro", speaker |-> speaker_key, image |-> "cover",
     audio |-> SpeakerIntroFile(speaker_key),
     duration |-> NarrationDuration(SpeakerIntroFile(speaker_key))]

\* (mutant) the clip takes the length of the narration file of that name
make_avatar_clip_other_duration(speaker_key, audio_path, durations) ==
    [kind |-> "turn", speaker |-> speaker_key, image |-> speaker_key,
     audio |-> audio_path, duration |-> NarrationDuration(audio_path)]

\* make_avatar_clip: the avatar, as long as the artifact's audio
make_avatar_clip(speaker_key, audio_path, durations) ==
    [kind |-> "turn", speaker |-> speaker_key, image |-> speaker_key,
     audio |-> audio_path, duration |-> durations[audio_path]]

\* (mutant) the introduction is not recorded
MarkIntroducedNot(intro, speaker_key) == intro

\* line 283: introduced[speaker_key] = True
MarkIntroduced(intro, speaker_key) == [intro EXCEPT ![speaker_key] = TRUE]

\* "003_алексей.mp3"
File003Cyrillic ==
    <<48, 48, 51, 95, 1072, 1083, 1077, 1082, 1089, 1077, 1081>> \o DotMp3

\* "003_alexey.mp3"
File003Latin == <<48, 48, 51, 95, 97, 108, 101, 120, 101, 121>> \o DotMp3

\* the files AUDIO_DIR may hold:
\*   "001_д-риринаучёный.mp3", "002_д-ралексейскептик.mp3",
\*   "003_алексей.mp3", "003_alexey.mp3",
\*   "004_АЛЕКСЕЙ и ирина.mp3", "intro_ирина.mp3",
\*   "999_д-риринаучёный.mp3", "1000_д-ралексейскептик.mp3"
CandidateFiles ==
    { Filename(1, IRINA_NAME),
      Filename(2, ALEXEY_NAME),
      Filename(999, IRINA_NAME),
      Filename(1000, ALEXEY_NAME),
      File003Cyrillic,
      File003Latin,
      <<48, 48, 52, 95, 1040, 1051, 1045, 1050, 1057, 1045, 1049, 32, 1080, 32,
        1080, 1088, 1080, 1085, 1072>> \o DotMp3,
      <<105, 110, 116, 114, 111, 95, 1080, 1088, 1080, 1085, 1072>> \o DotMp3 }

\* the audio durations a file may have, in tenths of a second
DurationValues == {30, 52}

\* the number of files in AUDIO_DIR, at most
MaxFiles == 3
\* the largest MAX_AUDIO_FILES
MaxCap == 2

InitAsm ==
    /\ vpc = "start"
    /\ apiKey \in BOOLEAN
    /\ audioDirExists \in BOOLEAN
    /\ audioDir \in { d \in SUBSET CandidateFiles :
                        /\ Cardinality(d) <= MaxFiles
                        /\ (~audioDirExists => d = {}) }
    /\ fileDuration \in [audioDir -> DurationValues]
    /\ avatars \in SUBSET SpeakerKeys
    /\ maxAudio \in 0..MaxCap
    /\ audio_files = <<>> /\ idx = 0 /\ clips = <<>>
    /\ introduced = [k \in SpeakerKeys |-> FALSE]
    /\ ttsCalls = 0 /\ fileResult = <<>> /\ videoWritten = FALSE
    /\ pc = "idle" /\ turns = 0 /\ i = 0 /\ agent = <<>>
    /\ history = <<>> /\ histArg = <<>> /\ lastContext = <<>>
    /\ lastRaw = <<>> /\ lastPre = <<>>
    /\ lastResp = NoCall /\ lastReply = <<>> /\ llmCalls = 0 /\ turnCalls = 0
    /\ synthTried = {} /\ synthFailed = {}
    /\ IdleText /\ IdleNames

AsmFrame == UNCHANGED <<textVars, dialogVars, dirVars, nameVars, avatars,
                        maxAudio, fileDuration>>

\* main, lines 207-252: the checks, the artifact list, the topic introduction
AsmStart ==
    /\ vpc = "start"
    /\ idx' = 0
    /\ introduced' = [k \in SpeakerKeys |-> FALSE]
    /\ UNCHANGED <<fileResult, videoWritten>>
    /\ AsmFrame
    /\ \/ /\ ~audioDirExists
          /\ vpc' = "err_no_audio_dir"
          /\ UNCHANGED <<audio_files, clips, ttsCalls>>
       \/ /\ audioDirExists
          /\ audio_files' = ListAudioFiles(audioDir, maxAudio)
          /\ \/ /\ audio_files' = <<>>
                /\ vpc' = "err_no_audio_files"
                /\ UNCHANGED <<clips, ttsCalls>>
             \/ /\ audio_files' # <<>>
                /\ MissingAvatar(avatars, audio_files')
                /\ vpc' = "err_no_avatar"
                /\ UNCHANGED <<clips, ttsCalls>>
             \/ /\ audio_files' # <<>>
                /\ ~MissingAvatar(avatars, audio_files')
                /\ ttsCalls' = ttsCalls + 1
                /\ \/ /\ vpc' = "err_topic_intro"
                      /\ UNCHANGED clips
                   \/ /\ apiKey
                      /\ clips' = Append(clips, make_topic_intro_clip)
                      /\ vpc' = "loop"

\* main, lines 254-294: one iteration of the loop over audio_files
ProcessFile ==
    /\ vpc = "loop"
    /\ idx < Len(audio_files)
    /\ idx' = idx + 1
    /\ UNCHANGED <<audio_files, videoWritten>>
    /\ AsmFrame
    /\ LET audio_path == audio_files[idx + 1]
           speaker_key == detect_speaker_from_filename(audio_path)
           needsIntro == speaker_key \in SpeakerKeys /\ ~introduced[speaker_key]
           withIntro == IF needsIntro
                        THEN Append(clips, make_speaker_intro_clip(speaker_key))
                        ELSE clips
       IN  \/ /\ speaker_key \notin SpeakerKeys
              /\ fileResult' = Append(fileResult, "skipped")
              /\ vpc' = "loop"
              /\ UNCHANGED <<clips, introduced, ttsCalls>>
           \/ /\ speaker_key \in SpeakerKeys
              /\ fileResult' = Append(fileResult, "unreadable")
              /\ vpc' = "loop"
              /\ UNCHANGED <<clips, introduced, ttsCalls>>
           \/ /\ needsIntro
              /\ fileResult' = Append(fileResult, "intro_failed")
              /\ ttsCalls' = ttsCalls + 1
              /\ vpc' = "err_speaker_intro"
              /\ UNCHANGED <<clips, introduced>>
           \/ /\ speaker_key \in SpeakerKeys
              /\ needsIntro => apiKey
              /\ ttsCalls' = ttsCalls + (IF needsIntro THEN 1 ELSE 0)
              /\ introduced' = IF needsIntro
                               THEN MarkIntroduced(introduced, speaker_key)
                               ELSE introduced
              /\ vpc' = "loop"
              /\ \/ /\ fileResult' = Append(fileResult, "clip_failed")
                    /\ clips' = withIntro
                 \/ /\ fileResult' = Append(fileResult, "clip")
                    /\ clips' = Append(withIntro,
                                       make_avatar_clip(speaker_key, audio_path,
                                                        fileDuration))

\* main, lines 296-328: concatenate and write the video
WriteVideo ==
    /\ vpc = "loop"
    /\ idx = Len(audio_files)
    /\ clips # <<>>
    /\ \/ vpc' = "written" /\ videoWritten' = TRUE
       \/ vpc' = "err_write" /\ UNCHANGED videoWritten
    /\ UNCHANGED <<audio_files, idx, clips, introduced, ttsCalls, fileResult>>
    /\ AsmFrame

NextAsm == AsmStart \/ ProcessFile \/ WriteVideo

SpecAsm == InitAsm /\ [][NextAsm]_vars

-----------------------------------------------------------------------------
(* Claims                                                                  *)

\* C1: on the expert's first turn (empty history, agent = expert) the
\* finalized text generate_reply appends to History starts with the preface
\* followed by the mandated opening phrase, and that preface+phrase occurs
\* exactly once, whatever the raw text was.
C1_FirstTurnOpening ==
    (pc = "returned" /\ histArg = <<>> /\ agent = IRINA_NAME)
        => /\ history[Len(history)] = <<IRINA_NAME, lastReply>>
           /\ startswith(lastReply, PrefacedPhrase)
           /\ count(lastReply, PrefacedPhrase) = 1

\* C2: applying the opening/preface enforcement to its own result returns
\* that result unchanged: E(E(t)) = E(t).
C2_EnforceIdempotent ==
    tOp = "enforced2" => tOut = tPrev

\* C3: the file name of each turn sorts strictly after the file name of the
\* turn before it, so that the names in lexicographic order are in turn
\* order (the order is transitive: adjacent turns decide it).
C3_NamesInTurnOrder ==
    nIdx >= 2 => StrLess(nPrevName, nName)

\* C4: each speaker identity has at most one speaker-introduction clip in
\* the clip list, every such clip stands before all turn clips of that
\* identity, and an identity marked introduced is never reset.
IntroPositions(k) ==
    { p \in 1..Len(clips) : clips[p].kind = "intro" /\ clips[p].speaker = k }

TurnPositions(k) ==
    { p \in 1..Len(clips) : clips[p].kind = "turn" /\ clips[p].speaker = k }

C4_IntroOrder ==
    \A k \in SpeakerKeys :
        /\ Cardinality(IntroPositions(k)) <= 1
        /\ \A p \in IntroPositions(k) : \A q \in TurnPositions(k) : p < q

C4_OneIntroBeforeFirstTurn ==
    /\ [](vpc # "idle" => C4_IntroOrder)
    /\ [][vpc # "start" =>
            \A k \in SpeakerKeys : introduced[k] => introduced'[k]]_vars

C4_Witness ==
    \E k \in SpeakerKeys :
        /\ Cardinality(IntroPositions(k)) = 1
        /\ Cardinality(TurnPositions(k)) >= 2

\* C5 (as stated): the considered artifact 003_alexey.mp3 of duration d has,
\* in the clip list of the written video, a turn clip of duration d whose
\* audio is that file.
ConsideredAt(f) == { p \in 1..Len(audio_files) : audio_files[p] = f }

TurnClipsOf(f) ==
    { q \in 1..Len(clips) : clips[q].kind = "turn" /\ clips[q].audio = f }

C5_LatinNameGetsClip ==
    (vpc = "written" /\ ConsideredAt(File003Latin) # {})
        => \E q \in TurnClipsOf(File003Latin) :
               clips[q].duration = fileDuration[File003Latin]

\* C5 (amended): an artifact whose name holds a speaker's name in Cyrillic
\* (003_алексей.mp3) and whose audio was read and clipped has exactly one
\* turn clip: its audio is that file, its duration the file's duration, its
\* image that speaker's avatar.  An artifact that was skipped, unreadable or
\* failed to clip has none, and 003_alexey.mp3 holds no speaker name.
C5_TurnClipOfArtifact ==
    /\ detect_speaker_from_filename(File003Latin) = "unknown"
    /\ detect_speaker_from_filename(File003Cyrillic) = "alexey"
    /\ \A p \in 1..Len(fileResult) :
         LET f == audio_files[p]
             k == detect_speaker_from_filename(f)
         IN  /\ k \notin SpeakerKeys => fileResult[p] = "skipped"
             /\ fileResult[p] # "clip" => TurnClipsOf(f) = {}
             /\ fileResult[p] = "clip" =>
                  /\ k \in SpeakerKeys
                  /\ Cardinality(TurnClipsOf(f)) = 1
                  /\ \A q \in TurnClipsOf(f) :
                       /\ clips[q].duration = fileDuration[f]
                       /\ clips[q].image = k
                       /\ clips[q].speaker = k

C5_Witness ==
    /\ vpc = "written"
    /\ \E p \in ConsideredAt(File003Cyrillic) :
         /\ fileResult[p] = "clip"
         /\ fileDuration[File003Cyrillic] = 52

\* C6: run_dialog returns a History of exactly N turns, the expert speaking
\* the odd turns and the skeptic the even ones.
C6_AlternatingHistory ==
    pc = "done" =>
        /\ Len(history) = turns
        /\ \A k \in 1..Len(history) :
             history[k][1] = (IF k % 2 = 1 THEN IRINA_NAME ELSE ALEXEY_NAME)

C6_Witness == pc = "done" /\ turns >= 3 /\ Len(history) = turns

\* C7: with the audio directory empty at the start, whatever subset F of the
\* turns fails to synthesize, run_dialog returns a History of N turns,
\* synthesis was attempted for every turn, exactly N - |F| artifacts exist,
\* and the artifacts the assembler considers are those of the turns not in F.
C7_FailedTurnsLeaveNoArtifact ==
    pc = "done" =>
        /\ Len(history) = turns
        /\ synthTried = 1..turns
        /\ Cardinality(audioDir) = turns - Cardinality(synthFailed)
        /\ { ListAudioFiles(audioDir, maxAudio)[p] :
               p \in 1..Len(ListAudioFiles(audioDir, maxAudio)) }
             = { Filename(k, history[k][1]) : k \in (1..turns) \ synthFailed }

\* C8: when an avatar of a known speaker is missing, assembly ends in one of
\* its aborts before the topic introduction: no clip, no narration request,
\* no video written.
C8_MissingAvatarAborts ==
    (vpc \notin {"idle", "start"} /\ avatars # SpeakerKeys)
        => /\ vpc \in {"err_no_audio_dir", "err_no_audio_files", "err_no_avatar"}
           /\ clips = <<>>
           /\ ttsCalls = 0
           /\ ~videoWritten

C8_Witness ==
    /\ vpc = "err_no_avatar"
    /\ avatars = {"irina"}
    /\ audio_files # <<>>
    /\ \A p \in 1..Len(audio_files) :
         detect_speaker_from_filename(audio_files[p]) # "alexey"

\* C9: the text generate_reply appends has no Latin letter, unless a rewrite
\* was requested and still had one; then the text is the text as it stood
\* before sanitization.
C9_NoLatinUnlessFallback ==
    pc = "returned" =>
        /\ history[Len(history)] = <<agent, lastReply>>
        /\ HasLatin(lastReply) =>
             /\ lastResp # NoCall
             /\ HasLatin(lastResp)
             /\ lastReply = PreSanitize(agent, histArg, lastRaw)

C9_Witness ==
    /\ pc = "returned"
    /\ HasLatin(lastReply)
    /\ lastResp # NoCall
    /\ lastReply # strip(lastRaw)

\* C10: a generated line costs one generation request, and one rewrite
\* request exactly when it holds a Latin letter before sanitization; no turn
\* makes more than two requests and a run of N turns no more than 2N.
C10_AtMostTwoCallsPerTurn ==
    /\ turnCalls <= 2
    /\ llmCalls <= 2 * turns
    /\ llmCalls <= 2 * (i + 1)
    /\ pc = "synth" =>
         /\ turnCalls = 1 + (IF HasLatin(lastPre) THEN 1 ELSE 0)
         /\ (lastResp # NoCall) <=> HasLatin(lastPre)

C10_Witness == pc = "done" /\ turns >= 2 /\ llmCalls = 2 * turns

\* the self-labels the text given to _strip_leading_speaker_prefix opens
\* with, once its leading whitespace is skipped (letter case ignored)
LeadingLabels ==
    { f \in SelfLabels : startswith(lower(lstrip(tPrev)), lower(f)) }

\* the text that stands after the leading label f
AfterLabel(f) ==
    LET t0 == lstrip(tPrev) IN SubSeq(t0, Len(f) + 1, Len(t0))

\* C11 (as stated): a text that does not open with a self-label is returned
\* unaltered; of a text that opens with one, the leading label alone is
\* removed.
C11_UnlabelledTextUnaltered ==
    tOp = "stripped" =>
        /\ LeadingLabels = {} => tOut = tPrev
        /\ \A f \in LeadingLabels : tOut = strip(AfterLabel(f))

\* C11 (amended): a text that does not open with a self-label is returned
\* with its leading and trailing whitespace removed and nothing else
\* changed; of a text that opens with one, that leading label and the
\* whitespace around the remainder are removed and nothing else, so a label
\* further on in the line stays.
C11_OnlyLeadingLabelRemoved ==
    tOp = "stripped" =>
        /\ LeadingLabels = {} => tOut = strip(tPrev)
        /\ \A f \in LeadingLabels : tOut = strip(AfterLabel(f))

\* a leading label was removed and a later label of the line is still there
C11_Witness ==
    /\ tOp = "stripped"
    /\ LeadingLabels # {}
    /\ \E f \in SelfLabels : contains(lower(tOut), lower(f))
    /\ tOut # <<>>

\* C12 (as stated): without a credential run_dialog never returns normally,
\* and makes no language-model call, no synthesis call and no append.
C12_NoCredentialNeverReturns ==
    ~apiKey =>
        /\ pc # "done"
        /\ llmCalls = 0 /\ synthTried = {} /\ history = <<>>

\* what a run without a credential and with at least one turn to generate
\* may look like: not started yet, or failed in the first generate_reply
C12_NothingDone ==
    (~apiKey /\ turns >= 1) =>
        /\ pc \in {"loop", "error"}
        /\ i = 0
        /\ llmCalls = 0 /\ turnCalls = 0
        /\ synthTried = {} /\ audioDir = {}
        /\ history = <<>>

\* C12 (amended): if no credential is configured and at least one turn is
\* asked for, run_dialog fails with an error before generating any turn: no
\* language-model call, no synthesis call, no append to History; every step
\* it takes ends in the error, which nothing retries or swallows.
C12_FailsBeforeAnyTurn ==
    /\ []C12_NothingDone
    /\ [][(~apiKey /\ turns >= 1) => pc' = "error"]_vars
    /\ [][pc # "error"]_vars

C12_Witness == ~apiKey /\ turns >= 1 /\ pc = "error" /\ agent = IRINA_NAME

\* the turns of History rendered as _history_to_messages renders them
RenderedTurns(n) ==
    [k \in 1..n |-> strip(history[k][1] \o <<58, 32>> \o history[k][2])]

\* after turn k History has k turns; the list generate_reply was given for
\* turn k still holds the k-1 earlier turns, and the generation request of
\* turn k carried exactly those turns, in order
C13_LengthAndContext ==
    /\ pc \in {"loop", "done", "error"} => Len(history) = i
    /\ pc = "synth" =>
         /\ Len(history) = i + 1
         /\ histArg = SubSeq(history, 1, i)
         /\ lastContext = RenderedTurns(i)

\* a step leaves the turns already in History where and as they are, and
\* adds one turn at the end at most
C13_PrefixKept ==
    /\ Len(history') \in {Len(history), Len(history) + 1}
    /\ SubSeq(history', 1, Len(history)) = history

\* C13: History is append-only across the run: after turn k it has length
\* k, the History after turn k-1 is a prefix of it, the context given to the
\* language model for turn k is the k-1 earlier turns in order, and
\* generate_reply leaves the list it was passed as it was.
C13_HistoryAppendOnly ==
    /\ []C13_LengthAndContext
    /\ [][C13_PrefixKept]_vars

C13_Witness ==
    /\ pc = "synth" /\ i = 2
    /\ Len(lastContext) = 2
    /\ history[1][2] # history[2][2]

\* the artifact run_dialog names for turn k, and the turns whose artifacts
\* the modelled AUDIO_DIR may hold
ArtifactOfTurn(k) == Filename(k, agents((k - 1) % 2))

RunTurns == {1, 2, 999, 1000}

\* the run got as far as concatenate_videoclips
ReachedConcatenation == vpc \in {"written", "err_write"}

\* the clip list opens with the one topic-introduction clip; the turn clips
\* stand in the order of their artifacts in audio_files, one per artifact
\* at most
C14_ClipOrderIsArtifactOrder ==
    ReachedConcatenation =>
        /\ clips[1].kind = "topic"
        /\ \A p \in 2..Len(clips) : clips[p].kind # "topic"
        /\ \A m \in 1..Len(audio_files) :
               Cardinality(TurnClipsOf(audio_files[m])) <= 1
        /\ \A p, q \in 1..Len(clips) :
               (p < q /\ clips[p].kind = "turn" /\ clips[q].kind = "turn")
                   => \E m, n \in 1..Len(audio_files) :
                          /\ m < n
                          /\ audio_files[m] = clips[p].audio
                          /\ audio_files[n] = clips[q].audio

\* the turn clips of run_dialog's artifacts stand in the order of the turns
\* of History
C14_ClipOrderIsTurnOrder ==
    ReachedConcatenation =>
        \A p, q \in 1..Len(clips) : \A a, b \in RunTurns :
            ( /\ p < q
              /\ clips[p].kind = "turn" /\ clips[p].audio = ArtifactOfTurn(a)
              /\ clips[q].kind = "turn" /\ clips[q].audio = ArtifactOfTurn(b) )
                => a < b

\* C14: in every assembly run that reaches concatenation the clip list
\* starts with exactly one topic-introduction clip, the turn clips are in
\* the order of their artifacts in file-name order, one per artifact at
\* most, and so the clip order is the artifact order is the History order.
C14_ClipOrderIsHistoryOrder ==
    C14_ClipOrderIsArtifactOrder /\ C14_ClipOrderIsTurnOrder

\* the speaker key of the persona that spoke under the name
PersonaKey(name) ==
    IF name = IRINA_NAME THEN "irina"
    ELSE IF name = ALEXEY_NAME THEN "alexey"
    ELSE "unknown"

\* the turns of History whose artifact is the file f
TurnsNamed(f) ==
    { k \in 1..Len(history) : f = Filename(k, history[k][1]) }

\* C15: every artifact run_dialog leaves in AUDIO_DIR is the artifact of
\* one turn of History, passes the assembler's file filter, and is detected
\* as the persona that spoke that turn (the expert's slug as irina, the
\* skeptic's as alexey, never unknown, never the other one), so its turn
\* clip shows that persona's avatar.
C15_ArtifactDetectedAsItsSpeaker ==
    \A f \in audioDir :
        /\ Cardinality(TurnsNamed(f)) = 1
        /\ IsMp3(f) /\ LeadingDigits(f)
        /\ \A k \in TurnsNamed(f) :
              /\ PersonaKey(history[k][1]) \in SpeakerKeys
              /\ detect_speaker_from_filename(f) = PersonaKey(history[k][1])
              /\ make_avatar_clip(detect_speaker_from_filename(f), f,
                                  [g \in {f} |-> 30]).image
                   = PersonaKey(history[k][1])

C15_Witness ==
    /\ pc = "done"
    /\ \E f, g \in audioDir :
          /\ detect_speaker_from_filename(f) = "irina"
          /\ detect_speaker_from_filename(g) = "alexey"

====
